---- MODULE Spec2Model ----
(***************************************************************************)
(* Model of mapit_postcodes_union_postcode_regions.py: the synthesis of    *)
(* postcode polygons from Voronoi cells, the coastline clip heuristic, the *)
(* streaming GeoJSON writer and the multiprocessing batch driver.          *)
(*                                                                         *)
(* Text is a sequence of one-character strings.  A geometry is a record    *)
(* over a small discrete plane: pts is the set of sample locations the     *)
(* geometry covers, coords the locations of its ring vertices, loose the   *)
(* zero-dimensional Point members of a collection, srid its coordinate     *)
(* system and valid the outcome of the GEOS validity check.                *)
(***************************************************************************)
EXTENDS Integers, Sequences, FiniteSets, TLC

VARIABLES
    options,                        \* handle(**options)
    nsulrow,                        \* table mapit_postcodes_nsulrow: uprn -> row
    regions_layer,                  \* features of the regions shapefile
    ncpu,                           \* what cpu_count() returns
    inland_sectors_by_region_code,  \* module global
    region_code_to_geometry_cache,  \* module global
    only_single_area,               \* local of handle, "unbound" before assignment
    pc,                             \* position of the running code
    feature_idx,                    \* position of the loop over regions_layer
    pool,                           \* the pool of the current phase
    dispatched,                     \* every work item ever handed to a pool
    files,                          \* output tree: file name -> content
    stdout,                         \* diagnostics printed so far
    call                            \* arguments and result of the function under test

vars == <<options, nsulrow, regions_layer, ncpu, inland_sectors_by_region_code,
          region_code_to_geometry_cache, only_single_area, pc, feature_idx,
          pool, dispatched, files, stdout, call>>

----
\* Bounds of the model
PlaneSize == 4
MaxEntries == 4
MaxFeatures == 2
MaxCpu == 3
NumRows == 2

\* Python's None where a text is expected, and an unbound local variable
None == <<"None">>
Unbound == <<"<unbound>">>
\* the module global inland_sectors_by_region_code before a table is loaded
NoTable == [is_none |-> TRUE, table |-> <<>>]
Table(t) == [is_none |-> FALSE, table |-> t]
Plane == 1 .. PlaneSize
RegionCodes == {"NW", "NE"}

----
\* Text helpers

Letters == {"A", "B"}
Digits == {"1", "2"}
IsSpace(c) == c = " "

StartsWith(s, p) == Len(s) >= Len(p) /\ SubSeq(s, 1, Len(p)) = p

\* position of the first space of s, 0 when there is none
FirstSpace(s) ==
    IF \E i \in 1 .. Len(s) : IsSpace(s[i])
      THEN CHOOSE i \in 1 .. Len(s) : IsSpace(s[i]) /\ \A j \in 1 .. i - 1 : ~IsSpace(s[j])
      ELSE 0

\* re.search(SECTOR_RE, s): one or more non-space characters at the start,
\* one space, one non-space character
SectorReMatches(s) ==
    LET k == FirstSpace(s) IN k >= 2 /\ Len(s) >= k + 1 /\ ~IsSpace(s[k + 1])

postcode_to_sector(postcode) ==
    IF SectorReMatches(postcode) THEN SubSeq(postcode, 1, FirstSpace(postcode) + 1)
                                 ELSE postcode

\* re.sub(r"\s+", "", s)
StripSpaces(s) == SelectSeq(s, LAMBDA c : ~IsSpace(c))

\* regexp_replace(s, ' .*', '') and re.sub(" .*", "", s): s up to its first space
Outcode(s) == IF FirstSpace(s) = 0 THEN s ELSE SubSeq(s, 1, FirstSpace(s) - 1)

\* regexp_replace(s, '^([A-Z]+).*', '\1'): the leading letters, s when it has none
LeadingLetters(s) ==
    LET n == IF \E i \in 1 .. Len(s) : s[i] \notin Letters
               THEN (CHOOSE i \in 1 .. Len(s) :
                        s[i] \notin Letters /\ \A j \in 1 .. i - 1 : s[j] \in Letters) - 1
               ELSE Len(s)
    IN  IF n = 0 THEN s ELSE SubSeq(s, 1, n)

\* regexp_replace(s, '^(.* [0-9]).*', '\1'): s up to the last space that a
\* digit follows, s when there is none
UpToLastSpaceDigit(s) ==
    LET hits == {i \in 1 .. Len(s) - 1 : IsSpace(s[i]) /\ s[i + 1] \in Digits}
    IN  IF hits = {} THEN s
        ELSE SubSeq(s, 1, 1 + CHOOSE i \in hits : \A j \in hits : j <= i)

\* str.upper()
Upper(s) == [i \in 1 .. Len(s) |-> IF s[i] = "a" THEN "A" ELSE IF s[i] = "b" THEN "B" ELSE s[i]]

\* code point order of the characters in use
CharRank(c) ==
    IF c = " " THEN 0 ELSE IF c = "," THEN 1 ELSE IF c = "1" THEN 2 ELSE IF c = "2" THEN 3
    ELSE IF c = "A" THEN 4 ELSE IF c = "B" THEN 5 ELSE IF c = "E" THEN 6 ELSE IF c = "N" THEN 7
    ELSE IF c = "W" THEN 8 ELSE 9

\* s < t in lexicographic order
TextLess(s, t) ==
    \E k \in 0 .. Len(s) :
        /\ k <= Len(t)
        /\ \A j \in 1 .. k : s[j] = t[j]
        /\ \/ k = Len(s) /\ k < Len(t)
           \/ k < Len(s) /\ k < Len(t) /\ CharRank(s[k + 1]) < CharRank(t[k + 1])

\* "order by" over a set of texts
RECURSIVE Sorted(_)
Sorted(S) ==
    IF S = {} THEN <<>>
    ELSE LET m == CHOOSE x \in S : \A y \in S \ {x} : TextLess(x, y)
         IN  <<m>> \o Sorted(S \ {m})

\* sep.join(texts)
RECURSIVE Join(_, _)
Join(sep, texts) ==
    IF texts = <<>> THEN <<>>
    ELSE IF Len(texts) = 1 THEN texts[1]
    ELSE texts[1] \o sep \o Join(sep, Tail(texts))

Reverse(q) == [i \in 1 .. Len(q) |-> q[Len(q) + 1 - i]]

----
\* Geometry

GeomType(g) ==
    IF g.pts = {} /\ g.loose # {} THEN "Point"
    ELSE IF g.loose # {} \/ g.pts = {} THEN "GeometryCollection"
    ELSE IF \A p \in g.pts, q \in g.pts : \A r \in Plane : (p < r /\ r < q) => r \in g.pts
      THEN "Polygon"
      ELSE "MultiPolygon"

\* the ring vertices of a polygonal cover: the ends of its maximal runs
Boundary(pts) == {p \in pts : (p - 1) \notin pts \/ (p + 1) \notin pts}

Geom(pts) == [srid |-> 27700, pts |-> pts, coords |-> Boundary(pts), loose |-> {}, valid |-> TRUE]

Intersects(a, b) == a.pts \cap b.pts # {}

\* GEOS intersection; touch is the set of locations where the two boundaries
\* only touch, which come back as Point members of a GeometryCollection
Intersection(a, b, touch) ==
    [a EXCEPT !.pts = (a.pts \cap b.pts) \ touch,
              !.coords = Boundary((a.pts \cap b.pts) \ touch),
              !.loose = touch]

TouchChoices(a, b) == SUBSET (a.coords \cap b.coords)

\* what GEOS may report as point-only contact between polygon and a region
TouchOracle(cache, polygon, region_code) ==
    IF region_code \in DOMAIN cache THEN TouchChoices(polygon, cache[region_code]) ELSE {{}}

Ret(v) == [raised |-> FALSE, val |-> v]
Raise(e) == [raised |-> TRUE, err |-> e]

get_region_geometry(cache, region_code) ==
    IF region_code \in DOMAIN cache /\ cache[region_code].pts # {}
      THEN Ret(cache[region_code])
      ELSE Raise("Exception: no cached geometry")

VertexScan(cache, polygon, region_code) ==
    IF GeomType(polygon) \notin {"Polygon", "MultiPolygon"} THEN Raise("Exception: Unknown geom_type")
    ELSE LET rg == get_region_geometry(cache, region_code) IN
         IF rg.raised THEN rg
         ELSE Ret(\E v \in polygon.coords : v \notin rg.val.pts)

polygon_requires_clipping(inland, cache, polygon, region_code, postcode_or_prefix) ==
    LET usable_postcode_or_prefix ==
            /\ postcode_or_prefix # None
            /\ postcode_or_prefix # <<>>
            /\ SectorReMatches(postcode_or_prefix)
    IN  IF ~inland.is_none /\ usable_postcode_or_prefix
          THEN IF region_code \notin DOMAIN inland.table THEN Raise("KeyError")
               ELSE IF postcode_to_sector(postcode_or_prefix) \in inland.table[region_code]
                 THEN Ret(FALSE)
                 ELSE VertexScan(cache, polygon, region_code)
          ELSE VertexScan(cache, polygon, region_code)

drop_non_polygons(geometry_collection) ==
    [geometry_collection EXCEPT !.loose = {}]

\* mutant: the intersection with the coastline is left out
clip_unioned_NoIntersection(inland, cache, polygon, region_code, postcode_or_prefix, touch) ==
    LET r == polygon_requires_clipping(inland, cache, polygon, region_code, postcode_or_prefix)
    IN  IF r.raised THEN r ELSE Ret(polygon)

clip_unioned(inland, cache, polygon, region_code, postcode_or_prefix, touch) ==
    LET r == polygon_requires_clipping(inland, cache, polygon, region_code, postcode_or_prefix)
    IN  IF r.raised THEN r
        ELSE IF ~r.val THEN Ret(polygon)
        ELSE LET gb_region_geom == get_region_geometry(cache, region_code) IN
             IF gb_region_geom.raised THEN gb_region_geom
             ELSE IF ~Intersects(polygon, gb_region_geom.val) THEN Ret(polygon)
             ELSE LET after_intersection == Intersection(polygon, gb_region_geom.val, touch)
                  IN  IF GeomType(after_intersection) = "GeometryCollection"
                        THEN Ret(drop_non_polygons(after_intersection))
                        ELSE Ret(after_intersection)

----
\* fast_geojson_output.  The file content is the sequence of the chunks
\* handed to f.write, in order.

Lit(text) == [lit |-> text]
\* polygon.json
GeoJson(polygon) == [json |-> polygon]

\* every property key the program uses, in the order sort_keys puts them
KeysSorted == <<"area", "district", "mapit_code", "postcodes", "region_codes", "sector", "uprns">>

\* json.dumps(properties, sort_keys=True): the members in key order
json_dumps(properties) ==
    LET keys == SelectSeq(KeysSorted, LAMBDA k : k \in DOMAIN properties)
    IN  [n \in 1 .. Len(keys) |-> <<keys[n], properties[keys[n]]>>]

PropsJson(properties) == [lit |-> ", \"properties\": ", dumps |-> json_dumps(properties)]

PREAMBLE == "{\"type\": \"FeatureCollection\", \"features\": ["
FEATURE_OPEN == "{\"type\": \"Feature\", \"geometry\": "
TRAILER == "]}"

\* mutant: the separator is written after each feature instead of before
\* every feature but the first
LoopBody_TrailingComma(first_item, entry) ==
    <<Lit(FEATURE_OPEN), GeoJson(entry[2]), PropsJson(entry[1]), Lit("}"), Lit(",")>>

\* one iteration of the loop over postcodes_and_polygons
LoopBody(first_item, entry) ==
    (IF ~first_item THEN <<Lit(",")>> ELSE <<>>)
        \o <<Lit(FEATURE_OPEN), GeoJson(entry[2]), PropsJson(entry[1]), Lit("}")>>

RECURSIVE WriteLoop(_, _, _)
WriteLoop(content, first_item, entries) ==
    IF entries = <<>> THEN content
    ELSE WriteLoop(content \o LoopBody(first_item, Head(entries)), FALSE, Tail(entries))

\* the content of the file once fast_geojson_output has returned
fast_geojson_output(postcodes_and_polygons) ==
    WriteLoop(<<Lit(PREAMBLE)>>, TRUE, postcodes_and_polygons) \o <<Lit(TRAILER)>>

----
\* Fixtures: the coastline of each region as the regions shapefile holds it.
\* Location 2 lies on the border of both regions, "NE" has an island at 4,
\* and every other location is sea.
Coastline(region_code) ==
    IF region_code = "NW" THEN Geom({1, 2}) ELSE Geom({2, 4})

Polygons == {Geom(p) : p \in (SUBSET Plane) \ {{}}}

LoadedCache(D) == [r \in D |-> Coastline(r)]

Sector11 == <<"A", "1", " ", "1">>
Hints == {None, <<>>, <<"A">>, <<"A", "1">>, <<"A", "1", " ">>, Sector11,
          <<"A", "1", " ", "1", "A">>, <<"A", "1", " ", "2">>}
InlandTables == {NoTable} \cup
    {Table(t) : t \in UNION {[D -> SUBSET {Sector11}] : D \in SUBSET RegionCodes}}

NoCall == [fn |-> "none"]
NoPool == [phase |-> 0, size |-> 0, status |-> <<>>, consumed |-> {}]

\* Everything the clip specification leaves alone
IdleDriver ==
    /\ options = [area |-> None]
    /\ nsulrow = <<>>
    /\ regions_layer = <<>>
    /\ ncpu = 1
    /\ only_single_area = Unbound
    /\ feature_idx = 0
    /\ pool = NoPool
    /\ dispatched = {}
    /\ files = <<>>
    /\ stdout = {}

InitClip ==
    /\ IdleDriver
    /\ pc = "ready"
    /\ inland_sectors_by_region_code \in InlandTables
    /\ \E D \in SUBSET RegionCodes : region_code_to_geometry_cache = LoadedCache(D)
    /\ \E polygon \in Polygons, region_code \in RegionCodes, hint \in Hints :
          call = [fn |-> "none", polygon |-> polygon, region_code |-> region_code,
                  postcode_or_prefix |-> hint, touch |-> {}, result |-> Raise("not called")]

CallPolygonRequiresClipping ==
    /\ pc = "ready"
    /\ pc' = "returned"
    /\ call' = [call EXCEPT !.fn = "polygon_requires_clipping",
                  !.result = polygon_requires_clipping(inland_sectors_by_region_code,
                                 region_code_to_geometry_cache, call.polygon,
                                 call.region_code, call.postcode_or_prefix)]
    /\ UNCHANGED <<options, nsulrow, regions_layer, ncpu, inland_sectors_by_region_code,
                   region_code_to_geometry_cache, only_single_area, feature_idx,
                   pool, dispatched, files, stdout>>

CallClipUnioned ==
    /\ pc = "ready"
    /\ pc' = "returned"
    /\ \E touch \in TouchOracle(region_code_to_geometry_cache, call.polygon, call.region_code) :
          call' = [call EXCEPT !.fn = "clip_unioned", !.touch = touch,
                    !.result = clip_unioned(inland_sectors_by_region_code,
                                   region_code_to_geometry_cache, call.polygon,
                                   call.region_code, call.postcode_or_prefix, touch)]
    /\ UNCHANGED <<options, nsulrow, regions_layer, ncpu, inland_sectors_by_region_code,
                   region_code_to_geometry_cache, only_single_area, feature_idx,
                   pool, dispatched, files, stdout>>

NextClip == CallPolygonRequiresClipping \/ CallClipUnioned

SpecClip == InitClip /\ [][NextClip]_vars

----
\* The tables.  A row of mapit_postcodes_nsulrow is keyed by its uprn; the
\* point of a row is the point of its Voronoi region.

Postcodes == {<<"A", "1", " ", "1", "A">>, <<"A", "1", " ", "2", "A">>, <<"B", "1", " ", "1", "A">>}
VoronoiIds == 1 .. 3
\* VoronoiRegion.objects.get(pk=id).polygon
VoronoiPolygon(id) ==
    IF id = 1 THEN Geom({1}) ELSE IF id = 2 THEN Geom({1, 2, 3}) ELSE Geom({2, 3, 4})

DigitChar(n) == IF n = 1 THEN "1" ELSE IF n = 2 THEN "2" ELSE IF n = 3 THEN "3" ELSE "4"
UprnText(u) == <<DigitChar(u)>>
RegionText(region_code) == IF region_code = "NW" THEN <<"N", "W">> ELSE <<"N", "E">>

Rows(postcodes) == [postcode : postcodes, region_code : RegionCodes, voronoi_region_id : VoronoiIds]

\* unary_union of a set of geometries
UnaryUnion(geoms) ==
    LET pts == UNION {g.pts : g \in geoms}
    IN  [srid |-> IF \E g \in geoms : g.srid = 4326 THEN 4326 ELSE 27700,
         pts |-> pts, coords |-> Boundary(pts),
         loose |-> UNION {g.loose : g \in geoms} \ pts, valid |-> TRUE]

\* the rows of  VoronoiRegion ... .values("nsulrow__region_code")
\*                .annotate(collected=Collect("polygon")), already unioned
union_results(db, postcodes) ==
    LET regions == {db[u].region_code : u \in {v \in DOMAIN db : db[v].postcode \in postcodes}}
    IN  [r \in regions |->
            UnaryUnion({VoronoiPolygon(db[u].voronoi_region_id) :
                            u \in {v \in DOMAIN db : db[v].postcode \in postcodes
                                                     /\ db[v].region_code = r}})]

\* the order in which the database returns the region groups: not specified
GroupOrder(regions, desc) ==
    LET asc == SelectSeq(<<"NE", "NW">>, LAMBDA r : r \in regions)
    IN  IF desc THEN Reverse(asc) ELSE asc

----
\* Reprojection and repair.  Whether a reprojected geometry is valid, and
\* whether an invalid one can be repaired, is a function of the geometry
\* that the model draws as an oracle: the geometry is invalid when it covers
\* the location oracle.bad.

ToWGS(p) == p + PlaneSize

\* geometry.transform(4326, clone=True)
Transform(g, oracle) ==
    [srid |-> 4326, pts |-> {ToWGS(p) : p \in g.pts}, coords |-> {ToWGS(p) : p \in g.coords},
     loose |-> {ToWGS(p) : p \in g.loose}, valid |-> oracle.bad \notin (g.pts \cup g.loose)]

NoGeometry == [srid |-> 0, pts |-> {}, coords |-> {}, loose |-> {}, valid |-> FALSE]

\* mapit.management.command_utils.fix_invalid_geos_geometry
fix_invalid_geos_geometry(g, oracle) ==
    IF oracle.fixable THEN [g EXCEPT !.valid = TRUE] ELSE NoGeometry

Oracles == {o \in [bad : {0} \cup Plane, fixable : BOOLEAN, touch : {{}, {2}}, desc : BOOLEAN] :
                o.bad = 0 => o.fixable}

\* the Point members GEOS reports for the intersection of polygon and region
TouchAt(cache, polygon, region_code, oracle) ==
    IF region_code \in DOMAIN cache
      THEN oracle.touch \cap polygon.coords \cap cache[region_code].coords
      ELSE {}

----
\* The tasks.  A task yields whether it raised, the files it wrote and the
\* diagnostics it printed.

Diag(msg, about) == [msg |-> msg, about |-> about]
Path(dir, sub, name) == [dir |-> dir, sub |-> sub, name |-> name]

Returned(written, out) == [raised |-> FALSE, err |-> "", files |-> written, out |-> out]
Raised(err, out) == [raised |-> TRUE, err |-> err, files |-> <<>>, out |-> out]

MULTIPLE_REGIONS == "Multiple region codes found (!!!) at"
HAD_TO_FIX == "Warning: had to fix polygon for postcode"
WAS_NONE == "The transformed polygon was None for"

\* the POINT of a Voronoi region as ST_AsText prints it, its eastings and northings
PointText(id) == <<DigitChar(id), ",", DigitChar(id)>>

\* a row of the vertical streets query
VerticalStreetRow(db, id) ==
    LET us == {u \in DOMAIN db : db[u].voronoi_region_id = id}
    IN  [point_wkt |-> PointText(id),
         postcodes |-> Sorted({db[u].postcode : u \in us}),
         region_codes |-> GroupOrder({db[u].region_code : u \in us}, FALSE),
         uprns |-> [k \in 1 .. Cardinality(us) |->
                       UprnText(CHOOSE u \in us : Cardinality({v \in us : v < u}) = k - 1)],
         voronoi_region_id |-> id]

\* process_vertical_street from "region_code = region_codes[0]" on
process_vertical_street_from_163(inland, cache, vertical_street_row, oracle) ==
    LET postcodes == vertical_street_row.postcodes
        region_codes == vertical_street_row.region_codes
        uprns == vertical_street_row.uprns
        region_code == region_codes[1]
        original_polyon == VoronoiPolygon(vertical_street_row.voronoi_region_id)
        clipped == clip_unioned(inland, cache, original_polyon, region_code, None,
                                TouchAt(cache, original_polyon, region_code, oracle))
    IN  IF clipped.raised THEN Raised(clipped.err, {})
        ELSE
        LET wgs_84_clipped_polygon == Transform(clipped.val, oracle)
        IN  \* the two messages format the name postcode, which this
            \* function never binds
            IF ~wgs_84_clipped_polygon.valid THEN Raised("NameError: postcode", {})
            ELSE
            LET postcode_multipolygons ==
                    <<  <<[postcodes |-> Join(<<",", " ">>, postcodes),
                           uprns |-> Join(<<",", " ">>, uprns),
                           region_codes |-> Join(<<",", " ">>,
                                [k \in 1 .. Len(region_codes) |-> RegionText(region_codes[k])])],
                          wgs_84_clipped_polygon>>  >>
                postcodes_for_filename ==
                    IF Len(postcodes) > 5 THEN SubSeq(postcodes, 1, 5) ELSE postcodes
                output_filename ==
                    vertical_street_row.point_wkt \o <<"-">>
                        \o Join(<<",">>, postcodes_for_filename) \o <<".geojson">>
            IN  Returned(Path("vertical-streets", <<>>, output_filename)
                            :> fast_geojson_output(postcode_multipolygons), {})

\* mutant: the check of the number of region codes is left out
process_vertical_street_NoRegionCheck(inland, cache, vertical_street_row, oracle) ==
    process_vertical_street_from_163(inland, cache, vertical_street_row, oracle)

process_vertical_street(inland, cache, vertical_street_row, oracle) ==
    IF Len(vertical_street_row.region_codes) > 1
      THEN Returned(<<>>, {Diag(MULTIPLE_REGIONS, vertical_street_row.point_wkt)})
      ELSE process_vertical_street_from_163(inland, cache, vertical_street_row, oracle)

\* The loop of process_outcode over the region groups of one postcode.
\* acc holds the diagnostics printed and final_polygons_per_region so far.
RECURSIVE OutcodeRegionLoop(_, _, _, _, _, _, _)
OutcodeRegionLoop(inland, cache, groups, order, postcode, oracle, acc) ==
    IF order = <<>> THEN acc
    ELSE
    LET region_code == Head(order)
        unioned == groups[region_code]
        clipped == clip_unioned(inland, cache, unioned, region_code, postcode,
                                TouchAt(cache, unioned, region_code, oracle))
    IN  IF clipped.raised THEN [acc EXCEPT !.raised = TRUE, !.err = clipped.err]
        ELSE
        LET transformed == Transform(clipped.val, oracle)
            wgs_84_clipped_polygon ==
                IF ~transformed.valid THEN fix_invalid_geos_geometry(transformed, oracle)
                                      ELSE transformed
            out1 == IF ~transformed.valid THEN {Diag(HAD_TO_FIX, postcode)} ELSE {}
            out2 == IF wgs_84_clipped_polygon = NoGeometry THEN {Diag(WAS_NONE, postcode)} ELSE {}
        IN  OutcodeRegionLoop(inland, cache, groups, Tail(order), postcode, oracle,
                [acc EXCEPT !.out = @ \cup out1 \cup out2,
                            !.polys = IF wgs_84_clipped_polygon = NoGeometry
                                        THEN @ ELSE Append(@, wgs_84_clipped_polygon)])

SeqRange(q) == {q[k] : k \in 1 .. Len(q)}

\* The loop of process_outcode over the postcodes of the outcode
RECURSIVE OutcodePostcodeLoop(_, _, _, _, _, _)
OutcodePostcodeLoop(db, inland, cache, postcodes, oracle, acc) ==
    IF postcodes = <<>> THEN acc
    ELSE
    LET postcode == Head(postcodes)
        groups == union_results(db, {postcode})
        r == OutcodeRegionLoop(inland, cache, groups, GroupOrder(DOMAIN groups, oracle.desc),
                               postcode, oracle,
                               [raised |-> FALSE, err |-> "", out |-> acc.out, polys |-> <<>>])
    IN  IF r.raised THEN [acc EXCEPT !.raised = TRUE, !.err = r.err, !.out = r.out]
        ELSE OutcodePostcodeLoop(db, inland, cache, Tail(postcodes), oracle,
                [acc EXCEPT !.out = r.out,
                            !.entries =
                                IF Len(r.polys) > 0
                                  THEN Append(@, <<[postcodes |-> postcode,
                                                    mapit_code |-> StripSpaces(postcode)],
                                                   UnaryUnion(SeqRange(r.polys))>>)
                                  ELSE @])

process_outcode(db, inland, cache, outcode, oracle) ==
    LET postcodes == Sorted({db[u].postcode : u \in
                                {v \in DOMAIN db : StartsWith(db[v].postcode, outcode \o <<" ">>)}})
        r == OutcodePostcodeLoop(db, inland, cache, postcodes, oracle,
                                 [raised |-> FALSE, err |-> "", out |-> {}, entries |-> <<>>])
    IN  IF r.raised THEN Raised(r.err, r.out)
        ELSE Returned(Path("units", <<>>, outcode \o <<".geojson">>)
                         :> fast_geojson_output(r.entries), r.out)

\* the three postcode levels of handle
Levels == <<"area", "district", "sector">>
Plural(singular) == IF singular = "area" THEN "areas"
                    ELSE IF singular = "district" THEN "districts" ELSE "sectors"

\* postcode matches query_dict_particular_area_re_format.format(prefix=prefix)
LevelRegexMatches(singular, prefix, postcode) ==
    IF singular = "area"
      THEN StartsWith(postcode, prefix) /\ Len(postcode) > Len(prefix)
              /\ postcode[Len(prefix) + 1] \in Digits
    ELSE IF singular = "district" THEN StartsWith(postcode, prefix \o <<" ">>)
    ELSE StartsWith(postcode, prefix)

get_subpath(level, prefix) ==
    IF level \in {"areas", "districts"} THEN Path(level, <<>>, prefix \o <<".geojson">>)
    ELSE Path(level, Outcode(prefix), prefix \o <<".geojson">>)

\* the prefix of a postcode at a level, as query_all_areas derives it
LevelPrefix(singular, postcode) ==
    IF singular = "area" THEN LeadingLetters(postcode)
    ELSE IF singular = "district" THEN Outcode(postcode)
    ELSE UpToLastSpaceDigit(postcode)

\* the Voronoi regions the vertical streets query returns a row for
VerticalStreetIds(db) ==
    {id \in VoronoiIds :
        Cardinality({db[u].postcode : u \in {v \in DOMAIN db : db[v].voronoi_region_id = id}}) > 1}

\* The loop of process_level over the region groups
RECURSIVE LevelRegionLoop(_, _, _, _, _, _, _)
LevelRegionLoop(inland, cache, groups, order, prefix, oracle, acc) ==
    IF order = <<>> THEN acc
    ELSE
    LET region_code == Head(order)
        unioned == groups[region_code]
        clipped == clip_unioned(inland, cache, unioned, region_code, prefix,
                                TouchAt(cache, unioned, region_code, oracle))
    IN  IF clipped.raised THEN [acc EXCEPT !.raised = TRUE, !.err = clipped.err]
        ELSE
        LET wgs_84_clipped_polygon == Transform(clipped.val, oracle)
        IN  \* the two messages format the name postcode, which this function
            \* never binds
            IF ~wgs_84_clipped_polygon.valid
              THEN [acc EXCEPT !.raised = TRUE, !.err = "NameError: postcode"]
              ELSE LevelRegionLoop(inland, cache, groups, Tail(order), prefix, oracle,
                        [acc EXCEPT !.polys = Append(@, wgs_84_clipped_polygon)])

process_level(db, inland, cache, postcode_level, prefix, oracle) ==
    LET postcodes == {db[u].postcode : u \in
                        {v \in DOMAIN db : LevelRegexMatches(postcode_level, prefix, db[v].postcode)}}
        groups == union_results(db, postcodes)
        r == LevelRegionLoop(inland, cache, groups, GroupOrder(DOMAIN groups, oracle.desc),
                             prefix, oracle,
                             [raised |-> FALSE, err |-> "", out |-> {}, polys |-> <<>>])
        final_multipolygons ==
            IF Len(r.polys) > 0
              THEN << <<(postcode_level :> prefix) @@ [mapit_code |-> StripSpaces(prefix)],
                        UnaryUnion(SeqRange(r.polys))>> >>
              ELSE <<>>
    IN  IF r.raised THEN Raised(r.err, r.out)
        ELSE Returned(get_subpath(Plural(postcode_level), prefix)
                         :> fast_geojson_output(final_multipolygons), r.out)

----
\* The writer, one f.write group at a time

OUT == "out.geojson"

EntryChoices ==
    {<<[postcodes |-> <<"A", "1">>, mapit_code |-> <<"A", "1">>], Geom({1})>>,
     <<[sector |-> <<"B">>, mapit_code |-> <<"B">>], Geom({1, 2})>>,
     <<[uprns |-> <<"1">>, region_codes |-> <<"N", "W">>, postcodes |-> <<"A">>], Geom({2})>>}

InitJson ==
    /\ IdleDriver
    /\ inland_sectors_by_region_code = NoTable
    /\ region_code_to_geometry_cache = <<>>
    /\ pc = "open"
    /\ \E n \in 0 .. MaxEntries : \E entries \in [1 .. n -> EntryChoices] :
          call = [fn |-> "fast_geojson_output", postcodes_and_polygons |-> entries,
                  next |-> 1, first_item |-> TRUE]

UnchangedByWriter ==
    UNCHANGED <<options, nsulrow, regions_layer, ncpu, inland_sectors_by_region_code,
                region_code_to_geometry_cache, only_single_area, feature_idx,
                pool, dispatched, stdout>>

\* open(output_filename, "w") and the first write
JsonOpen ==
    /\ pc = "open"
    /\ files' = (OUT :> <<Lit(PREAMBLE)>>)
    /\ pc' = "loop"
    /\ UNCHANGED call
    /\ UnchangedByWriter

JsonWriteFeature ==
    /\ pc = "loop"
    /\ call.next <= Len(call.postcodes_and_polygons)
    /\ files' = [files EXCEPT ![OUT] =
                    @ \o LoopBody(call.first_item, call.postcodes_and_polygons[call.next])]
    /\ call' = [call EXCEPT !.next = @ + 1, !.first_item = FALSE]
    /\ UNCHANGED pc
    /\ UnchangedByWriter

JsonClose ==
    /\ pc = "loop"
    /\ call.next > Len(call.postcodes_and_polygons)
    /\ files' = [files EXCEPT ![OUT] = @ \o <<Lit(TRAILER)>>]
    /\ pc' = "closed"
    /\ UNCHANGED call
    /\ UnchangedByWriter

NextJson == JsonOpen \/ JsonWriteFeature \/ JsonClose

SpecJson == InitJson /\ [][NextJson]_vars

----
\* The tasks, each run on its own against a small table

TaskPostcodes == {<<"A", "1", " ", "1", "A">>, <<"A", "1", " ", "2", "A">>}
TaskInland == {NoTable, Table([NW |-> {Sector11}, NE |-> {}])}

\* a table is given up to the renaming of its uprns: the rows are drawn in
\* the order of (postcode, region code, Voronoi region)
RowKey(row) ==
    6 * Cardinality({q \in Postcodes : TextLess(q, row.postcode)})
        + (IF row.region_code = "NW" THEN 3 ELSE 0) + row.voronoi_region_id

InitTask ==
    /\ options = [area |-> None]
    /\ regions_layer = <<>>
    /\ ncpu = 1
    /\ only_single_area = Unbound
    /\ feature_idx = 0
    /\ pool = NoPool
    /\ dispatched = {}
    /\ files = <<>>
    /\ stdout = {}
    /\ pc = "ready"
    /\ call = NoCall
    /\ nsulrow \in [1 .. NumRows -> Rows(TaskPostcodes)]
    /\ \A u \in 1 .. NumRows - 1 : RowKey(nsulrow[u]) <= RowKey(nsulrow[u + 1])
    /\ inland_sectors_by_region_code \in TaskInland
    /\ region_code_to_geometry_cache \in {LoadedCache(RegionCodes), LoadedCache({"NW"})}

UnchangedByTask ==
    UNCHANGED <<options, nsulrow, regions_layer, ncpu, inland_sectors_by_region_code,
                region_code_to_geometry_cache, only_single_area, feature_idx,
                pool, dispatched>>

TaskReturns(fn, arg, oracle, result) ==
    /\ pc' = "returned"
    /\ call' = [fn |-> fn, arg |-> arg, oracle |-> oracle,
                raised |-> result.raised, err |-> result.err]
    /\ files' = result.files
    /\ stdout' = result.out
    /\ UnchangedByTask

RunProcessOutcode ==
    /\ pc = "ready"
    /\ \E u \in DOMAIN nsulrow, oracle \in Oracles :
          LET outcode == Outcode(nsulrow[u].postcode)
          IN  TaskReturns("process_outcode", [level |-> "unit", prefix |-> outcode], oracle,
                  process_outcode(nsulrow, inland_sectors_by_region_code,
                                  region_code_to_geometry_cache, outcode, oracle))

RunProcessLevel ==
    /\ pc = "ready"
    /\ \E u \in DOMAIN nsulrow, oracle \in Oracles, k \in DOMAIN Levels :
          LET prefix == LevelPrefix(Levels[k], nsulrow[u].postcode)
          IN  TaskReturns("process_level", [level |-> Levels[k], prefix |-> prefix], oracle,
                  process_level(nsulrow, inland_sectors_by_region_code,
                                region_code_to_geometry_cache, Levels[k], prefix, oracle))

RunProcessVerticalStreet ==
    /\ pc = "ready"
    /\ \E id \in VerticalStreetIds(nsulrow), oracle \in Oracles :
          LET row == VerticalStreetRow(nsulrow, id)
          IN  TaskReturns("process_vertical_street", row, oracle,
                  process_vertical_street(inland_sectors_by_region_code,
                                          region_code_to_geometry_cache, row, oracle))

NextTask == RunProcessOutcode \/ RunProcessLevel \/ RunProcessVerticalStreet

SpecTask == InitTask /\ [][NextTask]_vars

----
\* Command.handle: the batch driver

region_code_to_name ==
    [NW |-> "North West Euro Region", NE |-> "North East Euro Region"]
region_name_to_code(region_name) ==
    CHOOSE c \in DOMAIN region_code_to_name : region_code_to_name[c] = region_name

\* The features a regions shapefile may hold.  The first feature of a name
\* carries the outline of the region, a repeated name a different outline.
Layers ==
    UNION {[1 .. n -> {region_code_to_name[c] : c \in RegionCodes}] : n \in 0 .. MaxFeatures}
Feature(names, i) ==
    [NAME |-> names[i],
     geom |-> IF \E j \in 1 .. i - 1 : names[j] = names[i]
                THEN Geom({i})
                ELSE Coastline(region_name_to_code(names[i]))]

DriverTable ==
    << [postcode |-> <<"A", "1", " ", "1", "A">>, region_code |-> "NW", voronoi_region_id |-> 2],
       [postcode |-> <<"A", "1", " ", "2", "A">>, region_code |-> "NW", voronoi_region_id |-> 2],
       [postcode |-> <<"B", "1", " ", "1", "A">>, region_code |-> "NE", voronoi_region_id |-> 3] >>

Areas == {None, <<"a">>, <<"c">>}
DriverOracles == {o \in Oracles : o.touch = {} /\ ~o.desc /\ o.bad \in {0, 1} /\ o.fixable}

\* the phases of handle in program order; the three levels share one skip flag
Phases == <<"unit", "area", "district", "sector", "vertical">>
SkipFlag(phase) ==
    IF phase = "unit" THEN "skip_individual_postcodes"
    ELSE IF phase = "vertical" THEN "skip_vertical_streets" ELSE "skip_higher_level_areas"

InitDriver ==
    /\ options \in [area : Areas, inland_sectors_file : {NoTable, Table([NW |-> {Sector11}])},
                     skip_individual_postcodes : BOOLEAN, skip_higher_level_areas : BOOLEAN,
                     skip_vertical_streets : BOOLEAN]
    /\ nsulrow = DriverTable
    /\ \E names \in Layers : regions_layer = [i \in DOMAIN names |-> Feature(names, i)]
    /\ ncpu \in 1 .. MaxCpu
    /\ inland_sectors_by_region_code = NoTable
    /\ region_code_to_geometry_cache = <<>>
    /\ only_single_area = Unbound
    /\ pc = "start"
    /\ feature_idx = 0
    /\ pool = NoPool
    /\ dispatched = {}
    /\ files = <<>>
    /\ stdout = {}
    /\ \E o \in DriverOracles : call = [fn |-> "handle", oracle |-> o, err |-> "", in_task |-> FALSE]

Fails(err, in_task) ==
    /\ pc' = "failed"
    /\ call' = [call EXCEPT !.err = err, !.in_task = in_task]

\* lines 361-394: the output directory, the inland sectors file, the shapefile
LoadInlandSectors ==
    /\ pc = "start"
    /\ inland_sectors_by_region_code' = options.inland_sectors_file
    /\ pc' = "load_regions"
    /\ feature_idx' = 1
    /\ UNCHANGED <<options, nsulrow, regions_layer, ncpu, region_code_to_geometry_cache,
                   only_single_area, pool, dispatched, files, stdout, call>>

\* mutant: a later feature of the same region replaces the cached geometry
CacheAfterFeature_Overwrite(cache, feature) ==
    LET region_code == region_name_to_code(feature.NAME)
    IN  Ret((region_code :> feature.geom) @@ cache)

\* one iteration of the loop over regions_layer
CacheAfterFeature(cache, feature) ==
    LET region_code == region_name_to_code(feature.NAME)
    IN  IF region_code \in DOMAIN cache
          THEN Raise("CommandError: multiple regions in the regions shapefile")
          ELSE Ret((region_code :> feature.geom) @@ cache)

LoadFeature ==
    /\ pc = "load_regions"
    /\ feature_idx <= Len(regions_layer)
    /\ LET r == CacheAfterFeature(region_code_to_geometry_cache, regions_layer[feature_idx])
       IN  IF r.raised
             THEN /\ Fails(r.err, FALSE)
                  /\ UNCHANGED <<region_code_to_geometry_cache, feature_idx>>
             ELSE /\ region_code_to_geometry_cache' = r.val
                  /\ feature_idx' = feature_idx + 1
                  /\ UNCHANGED <<pc, call>>
    /\ UNCHANGED <<options, nsulrow, regions_layer, ncpu, inland_sectors_by_region_code,
                   only_single_area, pool, dispatched, files, stdout>>

RegionsLoaded ==
    /\ pc = "load_regions"
    /\ feature_idx > Len(regions_layer)
    /\ pc' = "phase"
    /\ pool' = [NoPool EXCEPT !.phase = 1]
    /\ UNCHANGED <<options, nsulrow, regions_layer, ncpu, inland_sectors_by_region_code,
                   region_code_to_geometry_cache, only_single_area, feature_idx,
                   dispatched, files, stdout, call>>

Item(fn, level, prefix) == [fn |-> fn, level |-> level, prefix |-> prefix]

\* the rows "where postcode like <area>%" keeps
RowsLike(db, area) == [u \in {v \in DOMAIN db : StartsWith(db[v].postcode, area)} |-> db[u]]

\* The work items of a phase (lines 409-422, 453-461, 473-495): the list
\* handed to imap_unordered and the value of only_single_area afterwards,
\* or the exception raised on the way.
WorkItems(phase, opts, db, only) ==
    IF phase = "unit" THEN
        LET outcodes == {Outcode(db[u].postcode) : u \in DOMAIN db}
            area == Upper(opts.area)
            kept == {o \in outcodes : StartsWith(o, area)}
        IN  IF opts.area = None
              THEN [raised |-> FALSE, err |-> "", only |-> only,
                    items |-> {Item("process_outcode", phase, o) : o \in outcodes}]
            ELSE IF kept = {}
              THEN [raised |-> TRUE, err |-> "CommandError: no outcodes were found for that area",
                    only |-> area, items |-> {}]
            ELSE [raised |-> FALSE, err |-> "", only |-> area,
                  items |-> {Item("process_outcode", phase, o) : o \in kept}]
    ELSE IF phase \in {"area", "district", "sector"} THEN
        LET prefixes == {LevelPrefix(phase, db[u].postcode) : u \in DOMAIN db}
            kept == {q \in prefixes : StartsWith(q, only)}
        IN  IF opts.area = None
              THEN [raised |-> FALSE, err |-> "", only |-> only,
                    items |-> {Item("process_level", phase, q) : q \in prefixes}]
            ELSE IF only = Unbound
              THEN [raised |-> TRUE, err |-> "UnboundLocalError: only_single_area",
                    only |-> only, items |-> {}]
            ELSE IF kept = {}
              THEN [raised |-> TRUE, err |-> "CommandError: no prefixes were found for that area",
                    only |-> only, items |-> {}]
            ELSE [raised |-> FALSE, err |-> "", only |-> only,
                  items |-> {Item("process_level", phase, q) : q \in kept}]
    ELSE
        IF only = Unbound
          THEN [raised |-> TRUE, err |-> "UnboundLocalError: only_single_area",
                only |-> only, items |-> {}]
          ELSE [raised |-> FALSE, err |-> "", only |-> only,
                items |-> {Item("process_vertical_street", phase, PointText(id)) :
                              id \in VerticalStreetIds(RowsLike(db, only))}]

\* Pool(processes=cpu_count() - 2)
PoolSize(n) ==
    IF n - 2 < 1 THEN Raise("ValueError: Number of processes must be at least 1")
                 ELSE Ret(n - 2)

UnchangedInputs ==
    UNCHANGED <<options, nsulrow, regions_layer, ncpu, inland_sectors_by_region_code,
                region_code_to_geometry_cache, feature_idx>>

NextPhase(k) ==
    IF k < Len(Phases) THEN /\ pc' = "phase"
                            /\ pool' = [NoPool EXCEPT !.phase = k + 1]
                       ELSE /\ pc' = "done"
                            /\ pool' = [NoPool EXCEPT !.phase = k]

\* "if not options[skip...]" finds the flag set
SkipPhase ==
    /\ pc = "phase"
    /\ options[SkipFlag(Phases[pool.phase])]
    /\ NextPhase(pool.phase)
    /\ UNCHANGED <<only_single_area, dispatched, files, stdout, call>>
    /\ UnchangedInputs

\* the phase up to the creation of its pool and the hand-over of its items
StartPhase ==
    /\ pc = "phase"
    /\ ~options[SkipFlag(Phases[pool.phase])]
    /\ LET w == WorkItems(Phases[pool.phase], options, nsulrow, only_single_area)
           size == PoolSize(ncpu)
       IN  /\ only_single_area' = w.only
           /\ IF w.raised THEN Fails(w.err, FALSE) /\ UNCHANGED <<pool, dispatched>>
              ELSE IF size.raised THEN Fails(size.err, FALSE) /\ UNCHANGED <<pool, dispatched>>
              ELSE /\ pool' = [phase |-> pool.phase, size |-> size.val,
                               status |-> [it \in w.items |-> "queued"], consumed |-> {}]
                   /\ dispatched' = dispatched \cup w.items
                   /\ pc' = "pool"
                   /\ UNCHANGED call
    /\ UNCHANGED <<files, stdout>>
    /\ UnchangedInputs

IdOfPoint(text) == CHOOSE id \in VoronoiIds : PointText(id) = text

\* the row of the vertical streets query behind a work item
RowOfItem(it, db, only) == VerticalStreetRow(RowsLike(db, only), IdOfPoint(it.prefix))

\* the effect of a task on the pool, the output tree and the standard output
TaskEnds(it, r) ==
    /\ pool' = [pool EXCEPT !.status[it] = IF r.raised THEN "raised" ELSE "returned"]
    /\ files' = r.files @@ files
    /\ stdout' = stdout \cup r.out

\* a worker of the pool runs one queued item
WorkerRun ==
    /\ pc = "pool"
    /\ \E it \in DOMAIN pool.status :
          /\ pool.status[it] = "queued"
          /\ \/ /\ it.fn = "process_outcode"
                /\ \E r \in {process_outcode(nsulrow, inland_sectors_by_region_code,
                                  region_code_to_geometry_cache, it.prefix, call.oracle)} :
                      TaskEnds(it, r)
             \/ /\ it.fn = "process_level"
                /\ \E r \in {process_level(nsulrow, inland_sectors_by_region_code,
                                  region_code_to_geometry_cache, it.level, it.prefix, call.oracle)} :
                      TaskEnds(it, r)
             \/ /\ it.fn = "process_vertical_street"
                /\ \E row \in {RowOfItem(it, nsulrow, only_single_area)} :
                      \E r \in {process_vertical_street(inland_sectors_by_region_code,
                                    region_code_to_geometry_cache, row, call.oracle)} :
                          TaskEnds(it, r)
    /\ UNCHANGED <<only_single_area, dispatched, pc, call>>
    /\ UnchangedInputs

\* the loop over imap_unordered takes the next result; the exception of a
\* task is raised again in the parent
ConsumeResult(status) ==
    IF status = "raised" THEN Raise("exception of a task re-raised by imap_unordered")
                         ELSE Ret(status)

ParentTakesResult ==
    /\ pc = "pool"
    /\ \E it \in DOMAIN pool.status \ pool.consumed :
          /\ pool.status[it] # "queued"
          /\ IF ConsumeResult(pool.status[it]).raised
                THEN Fails(ConsumeResult(pool.status[it]).err, TRUE) /\ UNCHANGED pool
                ELSE pool' = [pool EXCEPT !.consumed = @ \cup {it}] /\ UNCHANGED <<pc, call>>
    /\ UNCHANGED <<only_single_area, dispatched, files, stdout>>
    /\ UnchangedInputs

\* every result was taken: connection.close() and on to the next phase
PhaseEnds ==
    /\ pc = "pool"
    /\ pool.consumed = DOMAIN pool.status
    /\ NextPhase(pool.phase)
    /\ UNCHANGED <<only_single_area, dispatched, files, stdout, call>>
    /\ UnchangedInputs

NextDriver ==
    \/ LoadInlandSectors
    \/ LoadFeature
    \/ RegionsLoaded
    \/ SkipPhase
    \/ StartPhase
    \/ WorkerRun
    \/ ParentTakesResult
    \/ PhaseEnds

SpecDriver == InitDriver /\ [][NextDriver]_vars

----
\* Claims about the clip decision and the clip

ShortcutApplies ==
    /\ ~inland_sectors_by_region_code.is_none
    /\ call.postcode_or_prefix \notin {None, <<>>}
    /\ SectorReMatches(call.postcode_or_prefix)
    /\ call.region_code \in DOMAIN inland_sectors_by_region_code.table
    /\ postcode_to_sector(call.postcode_or_prefix)
          \in inland_sectors_by_region_code.table[call.region_code]

SomeVertexOutside ==
    \E v \in call.polygon.coords : v \notin Coastline(call.region_code).pts

CoastlineCached == call.region_code \in DOMAIN region_code_to_geometry_cache

\* C8: polygon_requires_clipping returns false when the table lists the hint's
\* sector for the region, and in every other case (also for a region with no
\* entry in the table) returns whether some vertex lies outside the coastline.
ClaimC8_DecisionIsShortcutOrScan ==
    (pc = "returned" /\ call.fn = "polygon_requires_clipping" /\ CoastlineCached) =>
        IF ShortcutApplies THEN call.result = Ret(FALSE)
                           ELSE call.result = Ret(SomeVertexOutside)

PartiallyExceeds ==
    /\ CoastlineCached
    /\ ~(call.polygon.pts \subseteq Coastline(call.region_code).pts)
    /\ Intersects(call.polygon, Coastline(call.region_code))

ReturnedWithinCoastline ==
    (call.result.val.pts \cup call.result.val.loose) \subseteq Coastline(call.region_code).pts

\* C6 as stated: whatever the hint and the table, the geometry clip_unioned
\* returns for a union that partially exceeds the coastline lies within it.
ClaimC6_AlwaysWithinCoastline ==
    (pc = "returned" /\ call.fn = "clip_unioned" /\ PartiallyExceeds /\ ~call.result.raised)
        => ReturnedWithinCoastline

\* C6 amended: a union with a vertex outside the coastline that still
\* intersects it, and whose hint is not short-circuited by the inland table,
\* is returned clipped to the coastline.
ThmC6_ClippedWhenVertexOutside ==
    (pc = "returned" /\ call.fn = "clip_unioned" /\ PartiallyExceeds
        /\ SomeVertexOutside /\ ~ShortcutApplies /\ ~call.result.raised)
        => ReturnedWithinCoastline

WitC6_ClippedWhenVertexOutside ==
    /\ pc = "returned" /\ call.fn = "clip_unioned" /\ PartiallyExceeds
    /\ SomeVertexOutside /\ ~ShortcutApplies /\ ~call.result.raised
    /\ call.result.val.pts # call.polygon.pts
    /\ call.result.val.pts # {}
    /\ ~inland_sectors_by_region_code.is_none
    /\ call.touch # {}

----
\* Claims about the writer

NumEntries == Len(call.postcodes_and_polygons)
FeatureAt(content, k, entry) ==
    /\ content[k] = Lit("{\"type\": \"Feature\", \"geometry\": ")
    /\ content[k + 1] = GeoJson(entry[2])
    /\ content[k + 2] = PropsJson(entry[1])
    /\ content[k + 3] = Lit("}")
Commas(content) == {k \in 1 .. Len(content) : content[k] = Lit(",")}

\* C4: the file holds the preamble, the n features in iterator order and the
\* trailer, with max(n-1, 0) commas, each between two consecutive features;
\* for n = 0 it is exactly {"type": "FeatureCollection", "features": []}.
ThmC4_FeaturesCommaSeparated ==
    (pc = "closed" /\ call.fn = "fast_geojson_output") =>
        LET content == files[OUT]
            n == NumEntries
        IN  /\ Len(content) = 2 + 4 * n + (IF n > 0 THEN n - 1 ELSE 0)
            /\ content[1] = Lit("{\"type\": \"FeatureCollection\", \"features\": [")
            /\ content[Len(content)] = Lit("]}")
            /\ \A i \in 1 .. n : FeatureAt(content, 2 + 5 * (i - 1), call.postcodes_and_polygons[i])
            /\ Commas(content) = {1 + 5 * (i - 1) : i \in 2 .. n}
            /\ Cardinality(Commas(content)) = (IF n > 0 THEN n - 1 ELSE 0)
            /\ content = fast_geojson_output(call.postcodes_and_polygons)

WitC4_FeaturesCommaSeparated ==
    /\ pc = "closed" /\ call.fn = "fast_geojson_output"
    /\ NumEntries >= 3
    /\ call.postcodes_and_polygons[1] # call.postcodes_and_polygons[2]
    /\ Cardinality(Commas(files[OUT])) = NumEntries - 1

----
\* Claims about the tasks

IsTask == pc = "returned" /\ call.fn \in {"process_outcode", "process_level", "process_vertical_street"}

\* the (entity, region group) pieces the task of the state clips and reprojects
Pieces ==
    IF call.fn = "process_outcode" THEN
        UNION {{[entity |-> q, region |-> r, geom |-> union_results(nsulrow, {q})[r], hint |-> q] :
                    r \in DOMAIN union_results(nsulrow, {q})} :
               q \in {nsulrow[u].postcode : u \in {v \in DOMAIN nsulrow :
                         StartsWith(nsulrow[v].postcode, call.arg.prefix \o <<" ">>)}}}
    ELSE IF call.fn = "process_level" THEN
        LET matching == {nsulrow[u].postcode : u \in {v \in DOMAIN nsulrow :
                            LevelRegexMatches(call.arg.level, call.arg.prefix, nsulrow[v].postcode)}}
        IN  {[entity |-> call.arg.prefix, region |-> r,
              geom |-> union_results(nsulrow, matching)[r], hint |-> call.arg.prefix] :
                r \in DOMAIN union_results(nsulrow, matching)}
    ELSE IF Len(call.arg.region_codes) = 1 THEN
        {[entity |-> call.arg.point_wkt, region |-> call.arg.region_codes[1],
          geom |-> VoronoiPolygon(call.arg.voronoi_region_id), hint |-> None]}
    ELSE {}

ClipOfPiece(p) ==
    clip_unioned(inland_sectors_by_region_code, region_code_to_geometry_cache, p.geom, p.region,
                 p.hint, TouchAt(region_code_to_geometry_cache, p.geom, p.region, call.oracle))

AllClipsReturn == \A p \in Pieces : ~ClipOfPiece(p).raised
Covered(g) == g.pts \cup g.loose
\* the reprojected geometry of piece p fails the validity check
PieceInvalid(p) == ~ClipOfPiece(p).raised /\ call.oracle.bad \in Covered(ClipOfPiece(p).val)
\* piece p yields no geometry: it is invalid and the repair returns nothing
PieceLost(p) == PieceInvalid(p) /\ ~call.oracle.fixable

\* the features of the files the task wrote, as (file, properties, geometry)
WrittenFeatures ==
    UNION {{[file |-> f, props |-> files[f][k + 2].dumps, geom |-> files[f][k + 1].json] :
                k \in {j \in 1 .. Len(files[f]) : files[f][j] = Lit(FEATURE_OPEN)}} :
           f \in DOMAIN files}

\* the features written for entity e: its code or list of codes is the value
\* of the property that names it
FeaturesOf(e) ==
    {w \in WrittenFeatures : \E n \in 1 .. Len(w.props) :
        /\ w.props[n][1] \in {"postcodes", "area", "district", "sector"}
        /\ w.props[n][2] = e}

\* C2 as stated: in every task kind an invalid reprojected geometry is
\* reported and repaired or left out, and the task returns normally and
\* writes its output file.
ClaimC2_InvalidGeometryIsRecovered ==
    (IsTask /\ AllClipsReturn /\ \E p \in Pieces : PieceInvalid(p)) =>
        /\ ~call.raised
        /\ DOMAIN files # {}
        /\ \E d \in stdout : d.msg = HAD_TO_FIX

\* C10 as stated: a unit or level entity with several region groups gets a
\* feature only when every one of its region groups produced a geometry.
ClaimC10_NoPartialUnion ==
    (IsTask /\ call.fn \in {"process_outcode", "process_level"} /\ ~call.raised) =>
        \A p \in Pieces :
            (Cardinality({q \in Pieces : q.entity = p.entity}) > 1 /\ FeaturesOf(p.entity) # {})
                => ~PieceLost(p)

\* the geometry C7 names: the union over the regions present of the region's
\* cells clipped against the region's own coastline, reprojected
UnionOfOwnClips ==
    UnaryUnion({Transform(ClipOfPiece(p).val, call.oracle) : p \in Pieces})

\* C7 as stated: process_level writes exactly one feature, the union of the
\* per-region unions each clipped against its own region's coastline.
ClaimC7_LevelIsUnionOfOwnClips ==
    (IsTask /\ call.fn = "process_level" /\ Pieces # {}
        /\ \A p \in Pieces : p.region \in DOMAIN region_code_to_geometry_cache) =>
        /\ ~call.raised
        /\ Cardinality(WrittenFeatures) = 1
        /\ \A w \in WrittenFeatures : Covered(w.geom) = Covered(UnionOfOwnClips)

\* C3: a vertical street group with more than one region code is reported
\* and skipped without a file; a group with one region code and a valid
\* reprojected geometry gets one feature that carries all of its unit codes,
\* its point identifiers and its region code.
ThmC3_VerticalStreetSkipOrOneFeature ==
    (IsTask /\ call.fn = "process_vertical_street") =>
        /\ Len(call.arg.region_codes) > 1 =>
               /\ ~call.raised
               /\ files = <<>>
               /\ stdout = {Diag(MULTIPLE_REGIONS, call.arg.point_wkt)}
        /\ (Len(call.arg.region_codes) = 1 /\ AllClipsReturn
                /\ \A p \in Pieces : ~PieceInvalid(p)) =>
               /\ ~call.raised
               /\ Cardinality(DOMAIN files) = 1
               /\ Cardinality(WrittenFeatures) = 1
               /\ \A w \in WrittenFeatures :
                     /\ w.props = << <<"postcodes", Join(<<",", " ">>, call.arg.postcodes)>>,
                                     <<"region_codes", RegionText(call.arg.region_codes[1])>>,
                                     <<"uprns", Join(<<",", " ">>, call.arg.uprns)>> >>
                     /\ \A u \in DOMAIN nsulrow :
                           nsulrow[u].voronoi_region_id = call.arg.voronoi_region_id =>
                               /\ nsulrow[u].postcode \in SeqRange(call.arg.postcodes)
                               /\ UprnText(u) \in SeqRange(call.arg.uprns)
                     /\ \A p \in Pieces :
                           Covered(w.geom) = Covered(Transform(ClipOfPiece(p).val, call.oracle))

WitC3_VerticalStreetOneFeature ==
    /\ IsTask /\ call.fn = "process_vertical_street"
    /\ Len(call.arg.region_codes) = 1 /\ Len(call.arg.postcodes) > 1
    /\ Cardinality(WrittenFeatures) = 1
    /\ \E p \in Pieces : Covered(ClipOfPiece(p).val) # Covered(p.geom)

----
\* Claims about the batch driver

IsDriver == call.fn = "handle"

\* C1 as stated: the exception of one task never aborts the run: the other
\* items of the phase are still executed and the run goes on.
ClaimC1_TaskFailureNeverAborts ==
    (IsDriver /\ pc = "failed" /\ \E it \in DOMAIN pool.status : pool.status[it] = "raised") =>
        /\ ~call.in_task
        /\ \A it \in DOMAIN pool.status : pool.status[it] # "queued"

\* C9 as stated: with n >= 1 processors a pool has max(1, n - 2) workers
\* and its creation never fails.
ClaimC9_PoolSizeHasFloorOfOne ==
    IsDriver =>
        /\ pc = "failed" => call.err # "ValueError: Number of processes must be at least 1"
        /\ pc = "pool" => pool.size = (IF ncpu - 2 > 1 THEN ncpu - 2 ELSE 1)

CodeOfFeature(i) == region_name_to_code(regions_layer[i].NAME)
Repeats(j) == \E i \in 1 .. j - 1 : CodeOfFeature(i) = CodeOfFeature(j)
HasDuplicate == \E j \in DOMAIN regions_layer : Repeats(j)
\* the second feature of the first region code that occurs twice
FirstRepeat == CHOOSE j \in DOMAIN regions_layer :
                  Repeats(j) /\ \A k \in 1 .. j - 1 : ~Repeats(k)
FirstFeatureOf(c) == CHOOSE i \in DOMAIN regions_layer :
                        CodeOfFeature(i) = c /\ \A k \in 1 .. i - 1 : CodeOfFeature(k) # c

\* C5: when two features map to one region code, loading stops with a
\* CommandError at the second of them, the cache keeps the geometry of the
\* first, and no work item is ever handed to a pool.
ThmC5_DuplicateRegionFailsFast ==
    (IsDriver /\ HasDuplicate) =>
        /\ pc \in {"start", "load_regions", "failed"}
        /\ feature_idx <= FirstRepeat
        /\ pc = "failed" =>
              /\ feature_idx = FirstRepeat
              /\ call.err = "CommandError: multiple regions in the regions shapefile"
              /\ ~call.in_task
        /\ \A c \in DOMAIN region_code_to_geometry_cache :
              region_code_to_geometry_cache[c] = regions_layer[FirstFeatureOf(c)].geom
        /\ dispatched = {}
        /\ pool = NoPool

WitC5_DuplicateRegionFailsFast ==
    /\ IsDriver /\ HasDuplicate
    /\ pc = "failed"
    /\ feature_idx = FirstRepeat
    /\ region_code_to_geometry_cache[CodeOfFeature(feature_idx)] # regions_layer[feature_idx].geom
    /\ ~options.skip_individual_postcodes

\* the prefixes a phase draws from the table before any restriction
PhaseUniverse(phase) ==
    IF phase = "unit"
      THEN {Item("process_outcode", phase, Outcode(nsulrow[u].postcode)) : u \in DOMAIN nsulrow}
    ELSE IF phase \in {"area", "district", "sector"}
      THEN {Item("process_level", phase, LevelPrefix(phase, nsulrow[u].postcode)) :
               u \in DOMAIN nsulrow}
    ELSE {Item("process_vertical_street", phase, PointText(id)) : id \in VerticalStreetIds(nsulrow)}

\* the items a phase is expected to hand to its pool: all of them without
\* --area, and with it those under the upper-cased restriction
ExpectedItems(phase) ==
    IF options.area = None THEN PhaseUniverse(phase)
    ELSE IF phase = "vertical"
      THEN {Item("process_vertical_street", phase, PointText(id)) :
               id \in VerticalStreetIds(RowsLike(nsulrow, Upper(options.area)))}
    ELSE {it \in PhaseUniverse(phase) : StartsWith(it.prefix, Upper(options.area))}

\* C11 as stated: whatever the skip flags and with or without --area, a
\* phase that is not skipped never stops on an undefined restriction value,
\* and the pool of a phase holds exactly the items under the upper-cased
\* restriction (every item when there is no restriction).
ClaimC11_RestrictionDefinedInEveryPhase ==
    IsDriver =>
        /\ pc = "failed" => call.err # "UnboundLocalError: only_single_area"
        /\ pc = "pool" => DOMAIN pool.status = ExpectedItems(Phases[pool.phase])

====
